---- MODULE Spec2Model ----
(***************************************************************************)
(* Model of the password manager's terminal application (src/src/main.rs)  *)
(* and its peer-to-peer sync task (src/src/main.rs main, src/src/p2p.rs).  *)
(*                                                                         *)
(* Two threads of control: the UI loop (App::run) and the sync task        *)
(* spawned in main.  They share two bounded channels.  Strings are        *)
(* modelled as sequences of tokens, Option<T> as a sequence of length      *)
(* zero or one, byte buffers as either a TOML document or garbage.         *)
(***************************************************************************)
EXTENDS Integers, Sequences, FiniteSets, TLC

VARIABLES
    should_quit,            \* App.should_quit
    store,                  \* App.store.items: key -> Item
    focused,                \* App.focused: "List" | "Content"
    list_state,             \* App.list_state.selected(): Option<usize>
    detail_focused_field,   \* App.detail_focused_field: Option<FocusableField>
    sync_state,             \* App.sync_state
    cmd_chan,               \* mpsc channel UI -> task (sync_sx / cmd_rx)
    result_chan,            \* mpsc channel task -> UI (result_tx / sync_rx)
    disk,                   \* the files under ./store: key -> file content
    ui_pc,                  \* position of App::run: "poll" | "event" | "done" | "panicked"
    p2p,                    \* the task's `p2p: Option<P2PSync>`
    task_pc,                \* position of the task: "recv" | "share" | "store" | "receive"
    task_cur,               \* the command the task is executing / the session it built
    serial,                 \* number of session commands the task has taken (names node ids)
    sessions                \* the P2PSync built and not shut down, by node id: "live" | "dropped"

vars == <<should_quit, store, focused, list_state, detail_focused_field, sync_state,
          cmd_chan, result_chan, disk, ui_pc, p2p, task_pc, task_cur, serial, sessions>>

ui_vars == <<should_quit, store, focused, list_state, detail_focused_field, sync_state,
             disk, ui_pc>>

task_vars == <<p2p, task_pc, task_cur, serial, sessions>>

(***************************************************************************)
(* Bounds of the model and constants of the program.                       *)
(***************************************************************************)
\* longest ticket text the user types into the receive prompt
MaxInput == 2

\* number of share / receive sessions the user starts in one run
MaxSessions == 2

\* mpsc::channel::<SyncCommand>(10)
CmdCapacity == 10

\* mpsc::channel::<SyncResult>(10)
ResultCapacity == 10

(***************************************************************************)
(* Option<T>                                                               *)
(***************************************************************************)
None == <<>>

Some(v) == <<v>>

IsSome(o) == Len(o) = 1

(***************************************************************************)
(* Item model.                                                             *)
(***************************************************************************)
\* an OnlineAccount with every optional field absent; `account` is
\* #[serde(skip)] and is never assigned, so it is always the empty string
OnlineAccount ==
    [variant |-> "OnlineAccount", account |-> "",
     username |-> None, email |-> None, phone |-> None, sign_in_with |-> None,
     password |-> None, status |-> None, host_website |-> None, login_pages |-> None,
     security_questions |-> None, date_created |-> None, two_factor_enabled |-> None,
     associated_items |-> None, notes |-> None]

SocialSecurity(number, name, date, country) ==
    [variant |-> "SocialSecurity", account_number |-> number, legal_name |-> name,
     issuance_date |-> date, country_of_issue |-> country]

\* FocusableField, in declaration order
FocusableField ==
    <<"Username", "Email", "Phone", "Password", "Website", "Status", "TwoFactor",
      "SignInProviders", "DateCreated", "SecurityQuestions", "Notes",
      "AccountNumber", "LegalName", "Country", "IssuanceDate">>

\* the sequence s restricted to the positions whose flag is TRUE
RECURSIVE Pushed(_, _)
Pushed(s, flags) ==
    IF s = <<>> THEN <<>>
    ELSE (IF Head(flags) THEN <<Head(s)>> ELSE <<>>) \o Pushed(Tail(s), Tail(flags))

\* get_available_fields that pushes IssuanceDate before Country
get_available_fields_date_first(item) ==
    IF item.variant = "OnlineAccount"
    THEN Pushed(<<"Username", "Email", "Phone", "Password", "Website", "Status",
                  "TwoFactor", "SignInProviders", "DateCreated", "SecurityQuestions",
                  "Notes">>,
                <<IsSome(item.username), IsSome(item.email), IsSome(item.phone),
                  IsSome(item.password), IsSome(item.host_website), IsSome(item.status),
                  IsSome(item.two_factor_enabled),
                  IsSome(item.sign_in_with) /\ item.sign_in_with[1] # <<>>,
                  IsSome(item.date_created), IsSome(item.security_questions),
                  IsSome(item.notes)>>)
    ELSE Pushed(<<"AccountNumber", "LegalName", "IssuanceDate", "Country">>,
                <<TRUE, IsSome(item.legal_name), IsSome(item.issuance_date),
                  IsSome(item.country_of_issue)>>)

\* get_available_fields that leaves out an empty list of security questions too
get_available_fields_no_empty_lists(item) ==
    IF item.variant = "OnlineAccount"
    THEN Pushed(<<"Username", "Email", "Phone", "Password", "Website", "Status",
                  "TwoFactor", "SignInProviders", "DateCreated", "SecurityQuestions",
                  "Notes">>,
                <<IsSome(item.username), IsSome(item.email), IsSome(item.phone),
                  IsSome(item.password), IsSome(item.host_website), IsSome(item.status),
                  IsSome(item.two_factor_enabled),
                  IsSome(item.sign_in_with) /\ item.sign_in_with[1] # <<>>,
                  IsSome(item.date_created),
                  IsSome(item.security_questions) /\ item.security_questions[1] # <<>>,
                  IsSome(item.notes)>>)
    ELSE Pushed(<<"AccountNumber", "LegalName", "Country", "IssuanceDate">>,
                <<TRUE, IsSome(item.legal_name), IsSome(item.country_of_issue),
                  IsSome(item.issuance_date)>>)

get_available_fields(item) ==
    IF item.variant = "OnlineAccount"
    THEN Pushed(<<"Username", "Email", "Phone", "Password", "Website", "Status",
                  "TwoFactor", "SignInProviders", "DateCreated", "SecurityQuestions",
                  "Notes">>,
                <<IsSome(item.username), IsSome(item.email), IsSome(item.phone),
                  IsSome(item.password), IsSome(item.host_website), IsSome(item.status),
                  IsSome(item.two_factor_enabled),
                  IsSome(item.sign_in_with) /\ item.sign_in_with[1] # <<>>,
                  IsSome(item.date_created), IsSome(item.security_questions),
                  IsSome(item.notes)>>)
    ELSE Pushed(<<"AccountNumber", "LegalName", "Country", "IssuanceDate">>,
                <<TRUE, IsSome(item.legal_name), IsSome(item.country_of_issue),
                  IsSome(item.issuance_date)>>)

\* fields.iter().position(|&field| field == f), as Option<usize> (1-based here)
Position(fields, f) ==
    IF \E i \in 1..Len(fields) : fields[i] = f
    THEN Some(CHOOSE i \in 1..Len(fields) :
                  fields[i] = f /\ \A j \in 1..(i - 1) : fields[j] # f)
    ELSE None

\* focus_next that stops at the last field instead of wrapping
focus_next_clamped(item, focused_field) ==
    LET fields == get_available_fields(item)
        idx == IF IsSome(focused_field) THEN Position(fields, focused_field[1]) ELSE None
    IN  IF fields = <<>> THEN focused_field
        ELSE IF IsSome(idx)
             THEN Some(fields[IF idx[1] = Len(fields) THEN idx[1] ELSE idx[1] + 1])
        ELSE Some(fields[1])

\* ItemDetailView::focus_next: the new focused_field
focus_next(item, focused_field) ==
    LET fields == get_available_fields(item)
        idx == IF IsSome(focused_field) THEN Position(fields, focused_field[1]) ELSE None
    IN  IF fields = <<>> THEN focused_field
        ELSE IF IsSome(idx) THEN Some(fields[(idx[1] % Len(fields)) + 1])
        ELSE Some(fields[1])

\* focus_prev that selects the first field when nothing is focused
focus_prev_from_first(item, focused_field) ==
    LET fields == get_available_fields(item)
        idx == IF IsSome(focused_field) THEN Position(fields, focused_field[1]) ELSE None
    IN  IF fields = <<>> THEN focused_field
        ELSE IF IsSome(idx)
             THEN Some(fields[(((idx[1] - 1) + Len(fields) - 1) % Len(fields)) + 1])
        ELSE Some(fields[1])

\* focus_prev that stops at the first field instead of wrapping
focus_prev_clamped(item, focused_field) ==
    LET fields == get_available_fields(item)
        idx == IF IsSome(focused_field) THEN Position(fields, focused_field[1]) ELSE None
    IN  IF fields = <<>> THEN focused_field
        ELSE IF IsSome(idx)
             THEN Some(fields[IF idx[1] = 1 THEN 1 ELSE idx[1] - 1])
        ELSE Some(fields[Len(fields)])

\* ItemDetailView::focus_prev: the new focused_field
focus_prev(item, focused_field) ==
    LET fields == get_available_fields(item)
        idx == IF IsSome(focused_field) THEN Position(fields, focused_field[1]) ELSE None
    IN  IF fields = <<>> THEN focused_field
        ELSE IF IsSome(idx)
             THEN Some(fields[(((idx[1] - 1) + Len(fields) - 1) % Len(fields)) + 1])
        ELSE Some(fields[Len(fields)])

(***************************************************************************)
(* Store, the items of the model and their serialization.                  *)
(***************************************************************************)
\* the key universe in &String order (sorted_keys.sort())
KeyOrder == <<"a", "b">>

\* the keys of a store, sorted
SortedKeys(items) == SelectSeq(KeyOrder, LAMBDA k : k \in DOMAIN items)

ItemAlice == [OnlineAccount EXCEPT !.username = Some("alice"), !.password = Some("pw1")]

ItemAliceNew == [OnlineAccount EXCEPT !.username = Some("alice"), !.notes = Some("moved")]

ItemBare == OnlineAccount

ItemSSN == SocialSecurity("078-05-1120", None, Some("1936-11-24"), None)

EmptyStore == [k \in {} |-> ItemBare]

\* what load_from_store can return: OnlineAccount items only
LoadableStores ==
    {EmptyStore, [k \in {"a"} |-> ItemAlice], ("a" :> ItemAlice) @@ ("b" :> ItemBare)}

\* the stores a peer may be sharing
PeerStores == {[k \in {"a"} |-> ItemAliceNew], [k \in {"b"} |-> ItemSSN]}

\* serde's view of one item: #[serde(skip)] account and #[serde(skip_serializing)]
\* legal_name are not written
SerializeItem(item) ==
    IF item.variant = "OnlineAccount"
    THEN [f \in (DOMAIN item) \ {"account"} |-> item[f]]
    ELSE [f \in (DOMAIN item) \ {"legal_name"} |-> item[f]]

\* Name::parse on the text of a legal_name key: None for a text that is no name
NameParse(text) == IF text = "" THEN None ELSE Some(text)

\* deserialize_name: a missing key is None, a present one goes through Name::parse
deserialize_name(table) ==
    IF "legal_name" \in DOMAIN table /\ IsSome(table.legal_name)
    THEN NameParse(table.legal_name[1])
    ELSE None

\* serde's reading of one item: skipped fields take their defaults
DeserializeItem(table) ==
    IF table.variant = "OnlineAccount"
    THEN [f \in DOMAIN OnlineAccount |-> IF f = "account" THEN "" ELSE table[f]]
    ELSE SocialSecurity(table.account_number, deserialize_name(table),
                        table.issuance_date, table.country_of_issue)

\* a byte buffer holding the TOML text of a document
TomlBytes(doc) == [toml |-> TRUE, doc |-> doc]

\* a byte buffer that is not UTF-8, not TOML, or not a PasswordStore
Garbage == [toml |-> FALSE, doc |-> <<>>]

\* App::serialize_store: toml::to_string(&self.store)
serialize_store(items) == TomlBytes([k \in DOMAIN items |-> SerializeItem(items[k])])

\* the payloads a fetch can deliver
PeerPayloads == {Garbage} \cup {serialize_store(s) : s \in PeerStores}

ParseErrorText == "invalid TOML"

\* a merge in which the local item wins a key collision
deserialize_store_local_wins(items, data) ==
    IF ~data.toml
    THEN [ok |-> FALSE, items |-> items, err |-> ParseErrorText]
    ELSE [ok |-> TRUE,
          items |-> [k \in (DOMAIN items) \cup (DOMAIN data.doc) |->
                        IF k \in DOMAIN items THEN items[k]
                        ELSE DeserializeItem(data.doc[k])],
          err |-> ""]

\* a merge that blanks an entry it receives a second time
deserialize_store_blanking(items, data) ==
    IF ~data.toml
    THEN [ok |-> FALSE, items |-> items, err |-> ParseErrorText]
    ELSE [ok |-> TRUE,
          items |-> [k \in (DOMAIN items) \cup (DOMAIN data.doc) |->
                        IF k \notin DOMAIN data.doc THEN items[k]
                        ELSE IF k \in DOMAIN items /\ items[k] = DeserializeItem(data.doc[k])
                             THEN OnlineAccount
                        ELSE DeserializeItem(data.doc[k])],
          err |-> ""]

\* App::deserialize_store: Ok with the merged items, or Err and the items untouched
deserialize_store(items, data) ==
    IF ~data.toml
    THEN [ok |-> FALSE, items |-> items, err |-> ParseErrorText]
    ELSE [ok |-> TRUE,
          items |-> [k \in (DOMAIN items) \cup (DOMAIN data.doc) |->
                        IF k \in DOMAIN data.doc THEN DeserializeItem(data.doc[k])
                        ELSE items[k]],
          err |-> ""]

\* App::save_store where the writes of the keys in `written` succeed before the
\* first failure (HashMap order); Ok iff every item was written
save_store(items, files, written) ==
    [ok |-> written = DOMAIN items,
     files |-> [k \in (DOMAIN files) \cup written |->
                   IF k \in written THEN SerializeItem(items[k]) ELSE files[k]]]

(***************************************************************************)
(* SyncState, SyncCommand, SyncResult.                                     *)
(***************************************************************************)
Idle == [tag |-> "Idle", text |-> <<>>]

Sharing(ticket) == [tag |-> "Sharing", text |-> ticket]

ReceiveInput(input) == [tag |-> "ReceiveInput", text |-> input]

Receiving == [tag |-> "Receiving", text |-> <<>>]

Completed(message) == [tag |-> "Completed", text |-> message]

Error(message) == [tag |-> "Error", text |-> message]

Placeholder == <<"Generating ticket">>

SavedMessage == <<"Passwords received and saved!">>

ParseFailedMessage(e) == <<"Failed to parse data: ", e>>

Share(data) == [cmd |-> "Share", data |-> data]

Receive(ticket) == [cmd |-> "Receive", ticket |-> ticket]

Cancel == [cmd |-> "Cancel"]

TicketGenerated(ticket) == [res |-> "TicketGenerated", ticket |-> ticket]

DataReceived(data) == [res |-> "DataReceived", data |-> data]

ErrorResult(msg) == [res |-> "Error", msg |-> msg]

\* Sender::try_send on the command channel: Err(Full) leaves the channel as it is
try_send(chan, msg) == IF Len(chan) < CmdCapacity THEN Append(chan, msg) ELSE chan

(***************************************************************************)
(* The UI side.  A handler is an operator on the record `a` of the App's   *)
(* fields (plus the command channel it sends on, the files it writes and   *)
(* the panic it may raise) that returns the record after the handler.      *)
(***************************************************************************)
\* the key events of the model; the arrow keys stand for their letter aliases,
\* "CtrlV" is Char('v') with the CONTROL modifier, the others are Char(c)
Chars == {"q", "s", "r", " "}

KeyCodes == {"Esc", "Enter", "Backspace", "Down", "Up", "Left", "Right", "CtrlV"} \cup Chars

\* what the system clipboard answers: unavailable, or a text
ClipboardStates == {[ok |-> FALSE, text |-> <<>>], [ok |-> TRUE, text |-> <<"s", "r">>]}

Panic(a, why) == [a EXCEPT !.panic = why]

\* App::get_current_item indexes sorted_keys[selected_idx]
CurrentItemExists(a) == a.list_state[1] < Len(SortedKeys(a.store))

get_current_item(a) == a.store[SortedKeys(a.store)[a.list_state[1] + 1]]

get_first_field_for_current_item(a) ==
    LET fields == get_available_fields(get_current_item(a))
    IN  IF fields = <<>> THEN None ELSE Some(fields[1])

focus_next_field(a) ==
    IF ~CurrentItemExists(a) THEN Panic(a, "index")
    ELSE [a EXCEPT !.detail_focused_field = focus_next(get_current_item(a), @)]

focus_prev_field(a) ==
    IF ~CurrentItemExists(a) THEN Panic(a, "index")
    ELSE [a EXCEPT !.detail_focused_field = focus_prev(get_current_item(a), @)]

\* start_sharing that enters Sharing without sending the command
start_sharing_unsent(a) == [a EXCEPT !.sync_state = Sharing(Placeholder)]

start_sharing(a) ==
    [a EXCEPT !.sync_sx = try_send(@, Share(serialize_store(a.store))),
              !.sync_state = Sharing(Placeholder)]

start_receiving(a) == [a EXCEPT !.sync_state = ReceiveInput(<<>>)]

\* cancel_sync that returns to Idle without telling the task
cancel_sync_silent(a) == [a EXCEPT !.sync_state = Idle]

cancel_sync(a) == [a EXCEPT !.sync_sx = try_send(@, Cancel), !.sync_state = Idle]

\* poll_sync_results that keeps the placeholder when the ticket arrives
fold_ticket_dropped(a, ticket) == a

\* poll_sync_results, arm SyncResult::TicketGenerated
fold_ticket(a, ticket) == [a EXCEPT !.sync_state = Sharing(ticket)]

\* poll_sync_results, arm SyncResult::DataReceived; `written` is how far
\* save_store gets, and its result is discarded
fold_data(a, data, written) ==
    LET d == deserialize_store(a.store, data)
    IN  IF d.ok
        THEN [a EXCEPT !.store = d.items,
                       !.disk = save_store(d.items, a.disk, written).files,
                       !.sync_state = Completed(SavedMessage)]
        ELSE [a EXCEPT !.sync_state = Error(ParseFailedMessage(d.err))]

\* poll_sync_results that reports every failure as a parse failure
fold_error_reworded(a, msg) == [a EXCEPT !.sync_state = Error(ParseFailedMessage(msg[1]))]

\* poll_sync_results, arm SyncResult::Error
fold_error(a, msg) == [a EXCEPT !.sync_state = Error(msg)]

\* the body of the loop of App::poll_sync_results for one received result
poll_sync_results(a, result, written) ==
    CASE result.res = "TicketGenerated" -> fold_ticket(a, result.ticket)
      [] result.res = "DataReceived" -> fold_data(a, result.data, written)
      [] result.res = "Error" -> fold_error(a, result.msg)

\* App::render: the two unwraps before anything is drawn
render(a) ==
    IF a.list_state = None \/ ~CurrentItemExists(a) THEN Panic(a, "render") ELSE a

\* App::get_focused_field_value, given the current item
get_focused_field_value(item, field) ==
    IF field = None THEN None
    ELSE IF item.variant = "OnlineAccount"
    THEN CASE field[1] = "Username" -> item.username
           [] field[1] = "Email" -> item.email
           [] field[1] = "Phone" -> item.phone
           [] field[1] = "Password" -> item.password
           [] field[1] = "Website" -> item.host_website
           [] field[1] = "Status" -> item.status
           [] field[1] = "TwoFactor" -> item.two_factor_enabled
           [] field[1] = "SignInProviders" -> item.sign_in_with
           [] field[1] = "DateCreated" -> item.date_created
           [] field[1] = "SecurityQuestions" -> item.security_questions
           [] field[1] = "Notes" -> item.notes
           [] OTHER -> None
    ELSE CASE field[1] = "AccountNumber" -> Some(item.account_number)
           [] field[1] = "LegalName" -> item.legal_name
           [] field[1] = "Country" -> item.country_of_issue
           [] field[1] = "IssuanceDate" -> item.issuance_date
           [] OTHER -> None

\* self.copy_field().unwrap()
copy_field(a, clip) ==
    IF ~clip.ok THEN Panic(a, "clipboard")
    ELSE IF ~CurrentItemExists(a) THEN Panic(a, "index")
    ELSE IF get_focused_field_value(get_current_item(a), a.detail_focused_field) = None
    THEN Panic(a, "copy_none")
    ELSE a

\* `len() - 1` on an empty map trips the overflow check
cycle_forward(a) ==
    IF Len(SortedKeys(a.store)) = 0 THEN Panic(a, "overflow")
    ELSE IF Len(SortedKeys(a.store)) - 1 = a.list_state[1]
    THEN [a EXCEPT !.list_state = Some(0)]
    ELSE [a EXCEPT !.list_state = Some(@[1] + 1)]

cycle_backward(a) ==
    IF 0 = a.list_state[1]
    THEN IF Len(SortedKeys(a.store)) = 0 THEN Panic(a, "overflow")
         ELSE [a EXCEPT !.list_state = Some(Len(SortedKeys(a.store)) - 1)]
    ELSE [a EXCEPT !.list_state = Some(@[1] - 1)]

\* handle_sync_key, arm SyncState::Sharing
sharing_key(a, key) == IF key = "Esc" THEN cancel_sync(a) ELSE a

\* the Enter arm without the emptiness test
confirm_receive_unchecked(a) ==
    [a EXCEPT !.sync_sx = try_send(@, Receive(a.sync_state.text)),
              !.sync_state = Receiving]

\* handle_sync_key, ReceiveInput, KeyCode::Enter
confirm_receive(a) ==
    IF a.sync_state.text # <<>>
    THEN [a EXCEPT !.sync_sx = try_send(@, Receive(a.sync_state.text)),
                   !.sync_state = Receiving]
    ELSE a

\* a backspace that empties the whole buffer instead of removing the last character
input_clear(a) ==
    [a EXCEPT !.sync_state = ReceiveInput(<<>>)]

\* handle_sync_key, ReceiveInput, KeyCode::Backspace: input.pop()
input_pop(a) ==
    IF a.sync_state.text = <<>> THEN a
    ELSE [a EXCEPT !.sync_state =
                       ReceiveInput(SubSeq(a.sync_state.text, 1, Len(a.sync_state.text) - 1))]

\* handle_sync_key, arm SyncState::ReceiveInput
receive_input_key(a, key, clip) ==
    CASE key = "Esc" -> [a EXCEPT !.sync_state = Idle]
      [] key = "Enter" -> confirm_receive(a)
      [] key = "Backspace" -> input_pop(a)
      [] key = "CtrlV" ->
            IF clip.ok
            THEN [a EXCEPT !.sync_state = ReceiveInput(a.sync_state.text \o clip.text)]
            ELSE a
      [] key \in Chars ->
            [a EXCEPT !.sync_state = ReceiveInput(Append(a.sync_state.text, key))]
      [] OTHER -> a

\* a dismissal that only Enter performs
dismiss_key_enter_only(a, key) ==
    IF key = "Enter" THEN [a EXCEPT !.sync_state = Idle] ELSE a

\* handle_sync_key, arm SyncState::Completed | SyncState::Error
dismiss_key(a, key) ==
    IF key \in {"Enter", "Esc"} THEN [a EXCEPT !.sync_state = Idle] ELSE a

handle_sync_key(a, key, clip) ==
    CASE a.sync_state.tag = "Sharing" -> sharing_key(a, key)
      [] a.sync_state.tag = "ReceiveInput" -> receive_input_key(a, key, clip)
      [] a.sync_state.tag = "Receiving" -> a
      [] a.sync_state.tag \in {"Completed", "Error"} -> dismiss_key(a, key)
      [] OTHER -> a

\* handle_key, arm Components::List
list_key(a, key) ==
    CASE key \in {"q", "Esc"} -> [a EXCEPT !.should_quit = TRUE]
      [] key = "Down" -> cycle_forward(a)
      [] key = "Up" -> cycle_backward(a)
      [] key \in {"Enter", "Right"} ->
            IF ~CurrentItemExists(a) THEN Panic(a, "index")
            ELSE [a EXCEPT !.focused = "Content",
                           !.detail_focused_field = get_first_field_for_current_item(a)]
      [] key = "s" -> start_sharing(a)
      [] key = "r" -> start_receiving(a)
      [] OTHER -> a

\* a Content arm that leaves the detail view without clearing the focus
content_key_keeps_focus(a, key, clip) ==
    CASE key = "q" -> [a EXCEPT !.should_quit = TRUE]
      [] key \in {"Esc", "Left"} -> [a EXCEPT !.focused = "List"]
      [] key = "Down" -> focus_next_field(a)
      [] key = " " -> copy_field(a, clip)
      [] key = "Up" -> focus_prev_field(a)
      [] key = "s" -> start_sharing(a)
      [] key = "r" -> start_receiving(a)
      [] OTHER -> a

\* handle_key, arm Components::Content
content_key(a, key, clip) ==
    CASE key = "q" -> [a EXCEPT !.should_quit = TRUE]
      [] key \in {"Esc", "Left"} ->
            [a EXCEPT !.focused = "List", !.detail_focused_field = None]
      [] key = "Down" -> focus_next_field(a)
      [] key = " " -> copy_field(a, clip)
      [] key = "Up" -> focus_prev_field(a)
      [] key = "s" -> start_sharing(a)
      [] key = "r" -> start_receiving(a)
      [] OTHER -> a

\* handle_key whose interception forgets the Completed overlay
handle_key_leaky(a, key, clip) ==
    IF a.sync_state.tag \notin {"Idle", "Completed"} THEN handle_sync_key(a, key, clip)
    ELSE IF a.focused = "List" THEN list_key(a, key)
    ELSE content_key(a, key, clip)

handle_key(a, key, clip) ==
    IF a.sync_state.tag # "Idle" THEN handle_sync_key(a, key, clip)
    ELSE IF a.focused = "List" THEN list_key(a, key)
    ELSE content_key(a, key, clip)

(***************************************************************************)
(* The UI loop, App::run: poll_sync_results, draw, then at most one key.   *)
(***************************************************************************)
App ==
    [should_quit |-> should_quit, store |-> store, focused |-> focused,
     list_state |-> list_state, detail_focused_field |-> detail_focused_field,
     sync_state |-> sync_state, sync_sx |-> cmd_chan, disk |-> disk, panic |-> "none"]

\* the App after a handler, and where the loop goes next; a panic ends the process
Becomes(a, next_pc) ==
    /\ should_quit' = a.should_quit
    /\ store' = a.store
    /\ focused' = a.focused
    /\ list_state' = a.list_state
    /\ detail_focused_field' = a.detail_focused_field
    /\ sync_state' = a.sync_state
    /\ cmd_chan' = a.sync_sx
    /\ disk' = a.disk
    /\ ui_pc' = IF a.panic # "none" THEN a.panic ELSE next_pc

Running == ui_pc \in {"poll", "event"}

\* how far save_store may get for this result: any subset of the merged items
WrittenChoices(result) ==
    IF result.res = "DataReceived" /\ deserialize_store(store, result.data).ok
    THEN SUBSET (DOMAIN deserialize_store(store, result.data).items)
    ELSE {{}}

\* a poll that folds the newest result of the channel instead of the oldest
PollResultNewest ==
    /\ ui_pc = "poll"
    /\ result_chan # <<>>
    /\ \E written \in WrittenChoices(result_chan[Len(result_chan)]) :
           Becomes(poll_sync_results(App, result_chan[Len(result_chan)], written), "poll")
    /\ result_chan' = SubSeq(result_chan, 1, Len(result_chan) - 1)
    /\ UNCHANGED task_vars

\* one iteration of `while let Ok(result) = self.sync_rx.try_recv()`
PollResult ==
    /\ ui_pc = "poll"
    /\ result_chan # <<>>
    /\ \E written \in WrittenChoices(Head(result_chan)) :
           Becomes(poll_sync_results(App, Head(result_chan), written), "poll")
    /\ result_chan' = Tail(result_chan)
    /\ UNCHANGED task_vars

\* try_recv finds the channel empty: the loop ends and the frame is drawn
Draw ==
    /\ ui_pc = "poll"
    /\ result_chan = <<>>
    /\ Becomes(render(App), "event")
    /\ UNCHANGED <<result_chan, task_vars>>

\* the number of share / receive sessions started so far
Started ==
    serial + Cardinality({i \in DOMAIN cmd_chan : cmd_chan[i].cmd # "Cancel"})

\* the ticket texts the user means to enter at the receive prompt
TicketTexts == {<<"s", "r", "q", " ">>, <<"q", " ", "s", "r">>}

IsPrefix(s, t) == Len(s) <= Len(t) /\ s = SubSeq(t, 1, Len(s))

\* the bounds of the model on what the user does
WithinBounds(a) ==
    /\ a.sync_state.tag = "ReceiveInput" =>
           /\ Len(a.sync_state.text) <= MaxInput
           /\ \E t \in TicketTexts : IsPrefix(a.sync_state.text, t)
    /\ (Len(a.sync_sx) > Len(cmd_chan) /\ a.sync_sx[Len(a.sync_sx)].cmd # "Cancel")
           => Started < MaxSessions

\* event::poll returns a key event and handle_key runs
KeyEvent(key, clip) ==
    /\ ui_pc = "event"
    /\ LET a == handle_key(App, key, clip)
       IN  /\ WithinBounds(a)
           /\ Becomes(a, IF a.should_quit THEN "done" ELSE "poll")
    /\ UNCHANGED <<result_chan, task_vars>>

\* event::poll times out, or the event is not a key
NoEvent ==
    /\ ui_pc = "event"
    /\ ui_pc' = "poll"
    /\ UNCHANGED <<should_quit, store, focused, list_state, detail_focused_field,
                   sync_state, cmd_chan, result_chan, disk, task_vars>>

(***************************************************************************)
(* The sync task spawned in main.                                          *)
(***************************************************************************)
\* BlobTicket::to_string of the session with this node id
TicketOf(node) == <<"blob", ToString(node)>>

BindError == <<"failed to bind endpoint">>

PublishError == <<"failed to add bytes">>

TicketError == <<"invalid ticket">>

FetchError == <<"peer unreachable">>

\* P2PSync after new() and share_data(): the endpoint, what it serves, its router
Session(node, data) == [node |-> node, data |-> data, router |-> TRUE]

\* the sessions once P2PSync::new() has built the one with this node id,
\* which the arm then keeps ("live") or lets go out of scope ("dropped")
Built(node, how) == [n \in (DOMAIN sessions) \cup {node} |->
                        IF n = node THEN how ELSE sessions[n]]

\* the sessions once P2PSync::shutdown has consumed the one with this node id
ShutDown(node) == [n \in (DOMAIN sessions) \ {node} |-> sessions[n]]

\* the sessions once the live one with this node id was dropped without shutdown
Dropped(node) == [sessions EXCEPT ![node] = "dropped"]

\* a Cancel arm that answers the Cancel with a result of its own
TaskCancelReports ==
    /\ Running
    /\ task_pc = "recv"
    /\ cmd_chan # <<>>
    /\ Head(cmd_chan).cmd = "Cancel"
    /\ cmd_chan' = Tail(cmd_chan)
    /\ p2p' = None
    /\ sessions' = IF p2p = None THEN sessions ELSE ShutDown(p2p[1].node)
    /\ Len(result_chan) < ResultCapacity
    /\ result_chan' = Append(result_chan, ErrorResult(<<"cancelled">>))
    /\ UNCHANGED <<ui_vars, task_pc, task_cur, serial>>

\* a Cancel arm that takes the session and lets it go without shutdown
TaskCancelDrops ==
    /\ Running
    /\ task_pc = "recv"
    /\ cmd_chan # <<>>
    /\ Head(cmd_chan).cmd = "Cancel"
    /\ cmd_chan' = Tail(cmd_chan)
    /\ p2p' = None
    /\ sessions' = IF p2p = None THEN sessions ELSE Dropped(p2p[1].node)
    /\ UNCHANGED <<ui_vars, result_chan, task_pc, task_cur, serial>>

\* cmd_rx.recv() yields Cancel: p2p.take() and shutdown
TaskCancel ==
    /\ Running
    /\ task_pc = "recv"
    /\ cmd_chan # <<>>
    /\ Head(cmd_chan).cmd = "Cancel"
    /\ cmd_chan' = Tail(cmd_chan)
    /\ p2p' = None
    /\ sessions' = IF p2p = None THEN sessions ELSE ShutDown(p2p[1].node)
    /\ UNCHANGED <<ui_vars, result_chan, task_pc, task_cur, serial>>

\* a recv() that hands out the newest command instead of the oldest
TaskRecvNewest ==
    /\ Running
    /\ task_pc = "recv"
    /\ cmd_chan # <<>>
    /\ cmd_chan[Len(cmd_chan)].cmd # "Cancel"
    /\ cmd_chan' = SubSeq(cmd_chan, 1, Len(cmd_chan) - 1)
    /\ task_cur' = Some(cmd_chan[Len(cmd_chan)])
    /\ task_pc' = IF cmd_chan[Len(cmd_chan)].cmd = "Share" THEN "share" ELSE "receive"
    /\ serial' = serial + 1
    /\ UNCHANGED <<ui_vars, result_chan, p2p, sessions>>

\* cmd_rx.recv() yields Share or Receive: the arm starts with P2PSync::new()
TaskRecv ==
    /\ Running
    /\ task_pc = "recv"
    /\ cmd_chan # <<>>
    /\ Head(cmd_chan).cmd # "Cancel"
    /\ cmd_chan' = Tail(cmd_chan)
    /\ task_cur' = Some(Head(cmd_chan))
    /\ task_pc' = IF Head(cmd_chan).cmd = "Share" THEN "share" ELSE "receive"
    /\ serial' = serial + 1
    /\ UNCHANGED <<ui_vars, result_chan, p2p, sessions>>

\* Share arm: new() and share_data() succeed; TicketGenerated is sent
TaskShareOk ==
    /\ Running
    /\ task_pc = "share"
    /\ Len(result_chan) < ResultCapacity
    /\ result_chan' = Append(result_chan, TicketGenerated(TicketOf(serial)))
    /\ task_cur' = Some(Session(serial, task_cur[1].data))
    /\ task_pc' = "store"
    /\ sessions' = Built(serial, "live")
    /\ UNCHANGED <<ui_vars, cmd_chan, p2p, serial>>

\* Share arm: new() or share_data() fails; Error is sent and the session dropped
TaskShareErr(msg) ==
    /\ Running
    /\ task_pc = "share"
    /\ Len(result_chan) < ResultCapacity
    /\ result_chan' = Append(result_chan, ErrorResult(msg))
    /\ task_cur' = None
    /\ task_pc' = "recv"
    /\ sessions' = IF msg = BindError THEN sessions ELSE Built(serial, "dropped")
    /\ UNCHANGED <<ui_vars, cmd_chan, p2p, serial>>

\* a task that writes the App's sync state itself when it stores the session
TaskStoreSetsState ==
    /\ Running
    /\ task_pc = "store"
    /\ p2p' = task_cur
    /\ task_cur' = None
    /\ task_pc' = "recv"
    /\ sessions' = IF p2p = None THEN sessions ELSE Dropped(p2p[1].node)
    /\ sync_state' = Sharing(TicketOf(task_cur[1].node))
    /\ UNCHANGED <<should_quit, store, focused, list_state, detail_focused_field, disk,
                   ui_pc, cmd_chan, result_chan, serial>>

\* Share arm after the send: p2p = Some(sync); the assignment drops the
\* session p2p held before
TaskStore ==
    /\ Running
    /\ task_pc = "store"
    /\ p2p' = task_cur
    /\ task_cur' = None
    /\ task_pc' = "recv"
    /\ sessions' = IF p2p = None THEN sessions ELSE Dropped(p2p[1].node)
    /\ UNCHANGED <<ui_vars, cmd_chan, result_chan, serial>>

\* Receive arm: receive_data() returns the bytes; DataReceived is sent, then shutdown
TaskReceiveOk(data) ==
    /\ Running
    /\ task_pc = "receive"
    /\ Len(result_chan) < ResultCapacity
    /\ result_chan' = Append(result_chan, DataReceived(data))
    /\ task_cur' = None
    /\ task_pc' = "recv"
    /\ sessions' = sessions
    /\ UNCHANGED <<ui_vars, cmd_chan, p2p, serial>>

\* a Receive arm that swallows its failure instead of reporting it
TaskReceiveErrUnreported(msg) ==
    /\ Running
    /\ task_pc = "receive"
    /\ task_cur' = None
    /\ task_pc' = "recv"
    /\ sessions' = IF msg = BindError THEN sessions ELSE Built(serial, "dropped")
    /\ UNCHANGED <<ui_vars, cmd_chan, result_chan, p2p, serial>>

\* Receive arm: new(), the ticket parse or the download fails; Error is sent
TaskReceiveErr(msg) ==
    /\ Running
    /\ task_pc = "receive"
    /\ Len(result_chan) < ResultCapacity
    /\ result_chan' = Append(result_chan, ErrorResult(msg))
    /\ task_cur' = None
    /\ task_pc' = "recv"
    /\ sessions' = IF msg = BindError THEN sessions ELSE Built(serial, "dropped")
    /\ UNCHANGED <<ui_vars, cmd_chan, p2p, serial>>

(***************************************************************************)
(* The system.                                                             *)
(***************************************************************************)
\* App::new after load_from_store, the two empty channels, the task at recv()
Init ==
    /\ should_quit = FALSE
    /\ store \in LoadableStores
    /\ focused = "List"
    /\ list_state = Some(0)
    /\ detail_focused_field = None
    /\ sync_state = Idle
    /\ cmd_chan = <<>>
    /\ result_chan = <<>>
    /\ disk = [k \in DOMAIN store |-> SerializeItem(store[k])]
    /\ ui_pc = "poll"
    /\ p2p = None
    /\ task_pc = "recv"
    /\ task_cur = None
    /\ serial = 0
    /\ sessions = <<>>

Next ==
    \/ PollResult
    \/ Draw
    \/ \E key \in KeyCodes, clip \in ClipboardStates : KeyEvent(key, clip)
    \/ NoEvent
    \/ TaskCancel
    \/ TaskRecv
    \/ TaskShareOk
    \/ \E msg \in {BindError, PublishError} : TaskShareErr(msg)
    \/ TaskStore
    \/ \E data \in PeerPayloads : TaskReceiveOk(data)
    \/ \E msg \in {BindError, TicketError, FetchError} : TaskReceiveErr(msg)

Spec == Init /\ [][Next]_vars

\* the user dismisses the overlay he is shown (Esc in Sharing, in the prompt,
\* in Completed and in Error)
Dismiss ==
    /\ sync_state.tag \in {"Sharing", "ReceiveInput", "Completed", "Error"}
    /\ KeyEvent("Esc", [ok |-> FALSE, text |-> <<>>])

\* The scheduling of the running program: the tokio task is polled whenever
\* it can proceed and every await of a transport operation returns Ok or
\* Err; the loop of App::run goes on ticking (event::poll returns after
\* TICK_RATE at the latest); and a user who is shown an overlay dismisses
\* it at some tick.
LiveSpec ==
    /\ Spec
    /\ WF_vars(TaskCancel)
    /\ WF_vars(TaskRecv)
    /\ WF_vars(TaskShareOk \/ \E msg \in {BindError, PublishError} : TaskShareErr(msg))
    /\ WF_vars(TaskStore)
    /\ WF_vars((\E data \in PeerPayloads : TaskReceiveOk(data))
                  \/ \E msg \in {BindError, TicketError, FetchError} : TaskReceiveErr(msg))
    /\ WF_vars(PollResult \/ Draw)
    /\ WF_vars(NoEvent \/ \E key \in KeyCodes, clip \in ClipboardStates : KeyEvent(key, clip))
    /\ SF_vars(Dismiss)

(***************************************************************************)
(* Properties of the sync state machine.                                   *)
(***************************************************************************)
\* this step is poll_sync_results folding a result of the given kind
Folds(kind) ==
    /\ ui_pc = "poll"
    /\ result_chan # <<>>
    /\ Head(result_chan).res = kind
    /\ result_chan' = Tail(result_chan)

\* every file of the store directory holds the current item of its key
Persisted(items, files) ==
    /\ DOMAIN items \subseteq DOMAIN files
    /\ \A k \in DOMAIN items : files[k] = SerializeItem(items[k])

\* a clipboard answer, for the keys whose handling never asks the clipboard
NoClipboard == [ok |-> FALSE, text |-> <<>>]

\* the command channel after one try_send of msg
Dispatched(msg) == IF Len(cmd_chan) < CmdCapacity THEN Append(cmd_chan, msg) ELSE cmd_chan

\* C1: a TicketGenerated folded while the state is not Sharing, or a
\* DataReceived folded while the state is not Receiving, leaves the sync
\* state and the store unchanged.
C1_LateResultDiscarded ==
    [][(\/ Folds("TicketGenerated") /\ sync_state.tag # "Sharing"
        \/ Folds("DataReceived") /\ sync_state.tag # "Receiving")
       => (sync_state' = sync_state /\ store' = store)]_vars

\* C2: the share key in Idle enters Sharing with the placeholder ticket and
\* hands exactly one Share command, carrying the serialization of the
\* current store, to try_send on the command channel.
C2_ShareDispatched ==
    [][(ui_pc = "event" /\ sync_state.tag = "Idle" /\ KeyEvent("s", NoClipboard))
       => /\ sync_state' = Sharing(Placeholder)
          /\ cmd_chan' = Dispatched(Share(serialize_store(store)))]_vars

\* C2 witness: a 2-item store has just been shared
C2_Witness ==
    /\ sync_state = Sharing(Placeholder)
    /\ Cardinality(DOMAIN store) = 2
    /\ cmd_chan = <<Share(serialize_store(store))>>

\* C3: a TicketGenerated(t) folded in Sharing makes the state Sharing{t},
\* with t the ticket the task sent, and leaves the store unchanged.
C3_TicketReplacesPlaceholder ==
    [][(Folds("TicketGenerated") /\ sync_state.tag = "Sharing")
       => /\ sync_state' = Sharing(Head(result_chan).ticket)
          /\ store' = store]_vars

\* C3 witness: the only session is a share that was never cancelled, and its
\* ticket is shown
C3_Witness ==
    /\ sync_state = Sharing(TicketOf(1))
    /\ serial = 1
    /\ cmd_chan = <<>>
    /\ p2p # None

\* C4: Esc in Sharing returns to Idle and hands a Cancel to try_send; any
\* other key in Sharing changes neither the sync state nor the channel.
C4_CancelSharing ==
    [][(ui_pc = "event" /\ sync_state.tag = "Sharing")
       => \A key \in KeyCodes :
             KeyEvent(key, NoClipboard)
             => IF key = "Esc"
                THEN sync_state' = Idle /\ cmd_chan' = Dispatched(Cancel)
                ELSE sync_state' = sync_state /\ cmd_chan' = cmd_chan]_vars

\* C4 witness: a share showing its real ticket has just been cancelled
C4_Witness ==
    /\ sync_state = Idle
    /\ cmd_chan = <<Cancel>>
    /\ p2p # None
    /\ serial = 1

\* C5: Enter in ReceiveInput with a non-empty buffer enters Receiving and
\* hands one Receive command with the buffer as its ticket to try_send; with
\* an empty buffer it changes neither the state nor the channel.
C5_ConfirmReceive ==
    [][(ui_pc = "event" /\ sync_state.tag = "ReceiveInput"
           /\ KeyEvent("Enter", NoClipboard))
       => IF sync_state.text # <<>>
          THEN sync_state' = Receiving /\ cmd_chan' = Dispatched(Receive(sync_state.text))
          ELSE sync_state' = sync_state /\ cmd_chan' = cmd_chan]_vars

\* C5 witness: a two-character ticket was confirmed
C5_Witness ==
    /\ sync_state = Receiving
    /\ cmd_chan = <<Receive(<<"s", "r">>)>>

\* C6: the receive key in Idle opens the prompt with an empty buffer; in the
\* prompt a character is appended at the end, Backspace removes the last
\* character (nothing on an empty buffer), Esc returns to Idle; none of
\* these sends a command.
C6_PromptEditing ==
    [][/\ (ui_pc = "event" /\ sync_state.tag = "Idle" /\ KeyEvent("r", NoClipboard))
          => sync_state' = ReceiveInput(<<>>) /\ cmd_chan' = cmd_chan
       /\ (ui_pc = "event" /\ sync_state.tag = "ReceiveInput")
          => \A key \in {"Backspace", "Esc"} \cup Chars :
                KeyEvent(key, NoClipboard)
                => /\ cmd_chan' = cmd_chan
                   /\ sync_state' =
                         CASE key = "Esc" -> Idle
                           [] key = "Backspace" ->
                                 ReceiveInput(IF sync_state.text = <<>> THEN <<>>
                                              ELSE [i \in 1..(Len(sync_state.text) - 1) |->
                                                       sync_state.text[i]])
                           [] OTHER -> ReceiveInput(sync_state.text \o <<key>>)]_vars

\* C6 witness: the prompt holds one character and the loop is back at its
\* poll, no command having been sent
C6_Witness ==
    /\ sync_state = ReceiveInput(<<"q">>)
    /\ ui_pc = "poll"
    /\ cmd_chan = <<>>
    /\ serial = 0
    /\ sessions = <<>>

\* C7: a DataReceived folded in Receiving either merges every received
\* entry, persists the merged store and completes, or (payload not a store)
\* ends in Error with the store as it was.
C7_ReceiveMergesAndPersists ==
    [][(Folds("DataReceived") /\ sync_state.tag = "Receiving")
       => IF Head(result_chan).data.toml
          THEN /\ \A k \in DOMAIN Head(result_chan).data.doc :
                      /\ k \in DOMAIN store'
                      /\ SerializeItem(store'[k]) = Head(result_chan).data.doc[k]
               /\ Persisted(store', disk')
               /\ sync_state'.tag = "Completed"
          ELSE sync_state'.tag = "Error" /\ store' = store]_vars

\* C8: an Error(msg) folded in Receiving makes the state Error{msg} and
\* leaves the store unchanged.
C8_ReceiveError ==
    [][(Folds("Error") /\ sync_state.tag = "Receiving")
       => sync_state' = Error(Head(result_chan).msg) /\ store' = store]_vars

\* C8 witness: the only session is a receive whose fetch failed
C8_Witness ==
    /\ sync_state = Error(FetchError)
    /\ serial = 1
    /\ result_chan = <<>>

\* C9: in Completed or Error, Enter or Esc returns to Idle and sends
\* nothing; every other key leaves the sync state as it is.
C9_Dismiss ==
    [][(ui_pc = "event" /\ sync_state.tag \in {"Completed", "Error"})
       => \A key \in KeyCodes :
             KeyEvent(key, NoClipboard)
             => /\ cmd_chan' = cmd_chan
                /\ sync_state' = IF key \in {"Enter", "Esc"} THEN Idle ELSE sync_state]_vars

\* C9 witness: the only session was a receive that merged a store, and its
\* Completed overlay has been dismissed
C9_Witness ==
    /\ sync_state = Idle
    /\ serial = 1
    /\ store \notin LoadableStores
    /\ cmd_chan = <<>>
    /\ result_chan = <<>>
    /\ task_pc = "recv"

\* C10: while the sync state is not Idle a key event (like every other step
\* taken while the loop waits for one) changes neither the list selection,
\* nor the focused component, nor the focused detail field, nor the quit
\* flag, and the loop goes on.
C10_OverlayIntercepts ==
    [][(ui_pc = "event" /\ sync_state.tag # "Idle")
       => /\ list_state' = list_state
          /\ focused' = focused
          /\ detail_focused_field' = detail_focused_field
          /\ should_quit' = should_quit
          /\ ui_pc' \in {"event", "poll"}]_vars

\* C10 witness: the quit key was typed into the prompt opened over the
\* detail view of an item whose second field has the focus
C10_Witness ==
    /\ sync_state = ReceiveInput(<<"q">>)
    /\ focused = "Content"
    /\ detail_focused_field = Some("Password")
    /\ should_quit = FALSE
    /\ ui_pc = "poll"

\* C11: the machine starts in Idle and has no terminal state: under the
\* scheduling of LiveSpec every Receiving state is eventually left, and
\* from every state that is not Idle the machine is eventually Idle again
\* (so Idle is reachable from every reachable state).
C11_NoTerminalState ==
    /\ sync_state = Idle
    /\ [](sync_state.tag = "Receiving" => <>(sync_state.tag # "Receiving"))
    /\ [](sync_state.tag # "Idle" => <>(sync_state.tag = "Idle"))

\* C11 witness: two sessions have been started and ended, and the machine
\* is back in Idle with nothing in flight
C11_Witness ==
    /\ sync_state = Idle
    /\ serial = 2
    /\ cmd_chan = <<>>
    /\ result_chan = <<>>
    /\ task_pc = "recv"
    /\ ui_pc = "event"

(***************************************************************************)
(* The focus navigator on its own: the detail view of every item.          *)
(***************************************************************************)
\* an optional scalar field: absent or present
OptionalValues == {None, Some("v")}

\* an optional list field: absent, present but empty, or present with an entry
OptionalLists == {None, Some(<<>>), Some(<<"e">>)}

\* every OnlineAccount: each optional field absent or present, the lists
\* sign_in_with and security_questions also present but empty
OnlineAccounts ==
    {[OnlineAccount EXCEPT !.username = r.username, !.email = r.email, !.phone = r.phone,
                           !.sign_in_with = r.sign_in_with, !.password = r.password,
                           !.status = r.status, !.host_website = r.host_website,
                           !.login_pages = r.login_pages,
                           !.security_questions = r.security_questions,
                           !.date_created = r.date_created,
                           !.two_factor_enabled = r.two_factor_enabled,
                           !.notes = r.notes] :
        r \in [username : OptionalValues, email : OptionalValues, phone : OptionalValues,
               sign_in_with : OptionalLists, password : OptionalValues,
               status : OptionalValues, host_website : OptionalValues,
               login_pages : {None, Some(<<"e">>)}, security_questions : OptionalLists,
               date_created : OptionalValues, two_factor_enabled : OptionalValues,
               notes : OptionalValues]}

\* every SocialSecurity: the account number, each optional field absent or present
SocialSecurities ==
    {SocialSecurity("078-05-1120", name, date, country) :
        name \in OptionalValues, date \in OptionalValues, country \in OptionalValues}

Items == OnlineAccounts \cup SocialSecurities

\* the keys of the list and of the detail view that move the focus
NavKeys == {"Enter", "Right", "Down", "Up", "Left"}

\* the application showing a store of one item
NavInit ==
    /\ should_quit = FALSE
    /\ store \in {[k \in {"a"} |-> item] : item \in Items}
    /\ focused = "List"
    /\ list_state = Some(0)
    /\ detail_focused_field = None
    /\ sync_state = Idle
    /\ cmd_chan = <<>>
    /\ result_chan = <<>>
    /\ disk = [k \in DOMAIN store |-> SerializeItem(store[k])]
    /\ ui_pc = "poll"
    /\ p2p = None
    /\ task_pc = "recv"
    /\ task_cur = None
    /\ serial = 0
    /\ sessions = <<>>

NavNext ==
    \/ Draw
    \/ \E key \in NavKeys : KeyEvent(key, NoClipboard)

NavSpec == NavInit /\ [][NavNext]_vars

(***************************************************************************)
(* Properties of the focus navigator.                                      *)
(***************************************************************************)
\* the declared order of the focusable fields of each variant
DeclaredOrder(item) ==
    IF item.variant = "OnlineAccount"
    THEN <<"Username", "Email", "Phone", "Password", "Website", "Status", "TwoFactor",
           "SignInProviders", "DateCreated", "SecurityQuestions", "Notes">>
    ELSE <<"AccountNumber", "LegalName", "Country", "IssuanceDate">>

\* the field of the record that backs a focusable field, as an Option
BackingField(item, f) ==
    CASE f = "Username" -> item.username
      [] f = "Email" -> item.email
      [] f = "Phone" -> item.phone
      [] f = "Password" -> item.password
      [] f = "Website" -> item.host_website
      [] f = "Status" -> item.status
      [] f = "TwoFactor" -> item.two_factor_enabled
      [] f = "SignInProviders" -> item.sign_in_with
      [] f = "DateCreated" -> item.date_created
      [] f = "SecurityQuestions" -> item.security_questions
      [] f = "Notes" -> item.notes
      [] f = "AccountNumber" -> Some(item.account_number)
      [] f = "LegalName" -> item.legal_name
      [] f = "Country" -> item.country_of_issue
      [] f = "IssuanceDate" -> item.issuance_date

Range(seq) == {seq[i] : i \in DOMAIN seq}

\* seq lists exactly the members of `order` that satisfy `wanted`, in the
\* order of `order` and each once
IsSubsequenceOf(seq, order, wanted(_)) ==
    /\ Range(seq) = {order[i] : i \in {j \in DOMAIN order : wanted(order[j])}}
    /\ \A i \in 1..(Len(seq) - 1) :
          (CHOOSE m \in DOMAIN order : order[m] = seq[i])
              < (CHOOSE n \in DOMAIN order : order[n] = seq[i + 1])

\* the focus values a detail view can be handed
FocusValues == {None} \cup {Some(f) : f \in Range(FocusableField)}

\* C12 as stated: the available fields of every item are the subsequence
\* of its variant's declared order whose backing field is present
\* (AccountNumber unconditionally), with no field twice and none of the
\* other variant.
C12_PresentFieldsInOrder ==
    \A k \in DOMAIN store :
        IsSubsequenceOf(get_available_fields(store[k]), DeclaredOrder(store[k]),
                        LAMBDA f : IsSome(BackingField(store[k], f)))

\* C12 amended: as above, except that SignInProviders is listed only when
\* the list of sign-in providers is present and not empty.
C12_PopulatedFieldsInOrder ==
    \A k \in DOMAIN store :
        IsSubsequenceOf(get_available_fields(store[k]), DeclaredOrder(store[k]),
                        LAMBDA f : /\ IsSome(BackingField(store[k], f))
                                   /\ f = "SignInProviders" => store[k].sign_in_with[1] # <<>>)

\* C12 witness: the detail view of an account whose provider list is
\* present but empty, with the focus on the field after the gap
C12_Witness ==
    /\ focused = "Content"
    /\ store["a"].variant = "OnlineAccount"
    /\ store["a"].sign_in_with = Some(<<>>)
    /\ get_available_fields(store["a"]) = <<"TwoFactor", "DateCreated">>
    /\ detail_focused_field = Some("DateCreated")

\* the optional fields of a record
OptionalFields(item) ==
    IF item.variant = "OnlineAccount"
    THEN {"username", "email", "phone", "sign_in_with", "password", "status",
          "host_website", "login_pages", "security_questions", "date_created",
          "two_factor_enabled", "associated_items", "notes"}
    ELSE {"legal_name", "issuance_date", "country_of_issue"}

C14_FocusNext ==
    \A k \in DOMAIN store :
        LET fields == get_available_fields(store[k])
        IN  \A cur \in FocusValues :
               LET new == focus_next(store[k], cur)
               IN  IF fields = <<>> THEN new = cur
                   ELSE IF cur = None \/ cur[1] \notin Range(fields)
                        THEN new = Some(fields[1])
                   ELSE \E i \in DOMAIN fields :
                           /\ fields[i] = cur[1]
                           /\ new = Some(fields[IF i = Len(fields) THEN 1 ELSE i + 1])

\* C14 witness: scenario A after three focus_next: username and password
\* only, and the focus has wrapped from Password back to Username
C14_Witness ==
    /\ focused = "Content"
    /\ get_available_fields(store["a"]) = <<"Username", "Password">>
    /\ detail_focused_field = Some("Username")
    /\ focus_next(store["a"], Some("Password")) = detail_focused_field
    /\ ui_pc = "poll"

\* C15: focus_prev leaves the focus alone on an empty list, selects the
\* last field when the focus is None or not in the list, the last field
\* from the first, and otherwise the field before.
C15_FocusPrev ==
    \A k \in DOMAIN store :
        LET fields == get_available_fields(store[k])
        IN  \A cur \in FocusValues :
               LET new == focus_prev(store[k], cur)
               IN  IF fields = <<>> THEN new = cur
                   ELSE IF cur = None \/ cur[1] \notin Range(fields)
                        THEN new = Some(fields[Len(fields)])
                   ELSE \E i \in DOMAIN fields :
                           /\ fields[i] = cur[1]
                           /\ new = Some(fields[IF i = 1 THEN Len(fields) ELSE i - 1])

\* C15 witness: focus_prev from the first of three fields has selected the last
C15_Witness ==
    /\ focused = "Content"
    /\ get_available_fields(store["a"]) = <<"Email", "Status", "Notes">>
    /\ detail_focused_field = Some("Notes")
    /\ ui_pc = "poll"

\* the focus after each of n successive focus_next, starting from `cur`
RECURSIVE Visited(_, _, _)
Visited(item, cur, n) ==
    IF n = 0 THEN <<>>
    ELSE LET new == focus_next(item, cur) IN <<new>> \o Visited(item, new, n - 1)

\* C16: for an item with N >= 1 available fields, focus_next applied k
\* times from None gives the k-th field for k = 1..N and the first field
\* again for k = N + 1; focus_prev undoes focus_next on every field.
C16_FocusCycle ==
    \A k \in DOMAIN store :
        LET fields == get_available_fields(store[k])
        IN  fields # <<>> =>
               /\ Visited(store[k], None, Len(fields) + 1)
                     = [n \in 1..(Len(fields) + 1) |->
                           Some(fields[IF n > Len(fields) THEN 1 ELSE n])]
               /\ \A i \in DOMAIN fields :
                     focus_prev(store[k], focus_next(store[k], Some(fields[i])))
                         = Some(fields[i])

\* C16 witness: an account with all eleven fields available, the focus on the last
C16_Witness ==
    /\ focused = "Content"
    /\ Len(get_available_fields(store["a"])) = 11
    /\ detail_focused_field = Some("Notes")
    /\ Visited(store["a"], None, 11)[11] = detail_focused_field

\* C17: entering the detail view puts the focus on the first available
\* field of the selected item (None if it has none); leaving it clears the
\* focus; whenever the list is the active component the focus is None; and
\* while the detail view stays open the focus changes only by a next or
\* previous command, to the field that command selects.
C17_FocusLifecycle ==
    /\ [](focused = "List" => detail_focused_field = None)
    /\ [][/\ (focused = "List" /\ focused' = "Content")
             => LET fields == get_available_fields(
                                  store[SortedKeys(store)[list_state[1] + 1]])
                IN  /\ store' = store /\ list_state' = list_state
                    /\ detail_focused_field' =
                          IF fields = <<>> THEN None ELSE Some(fields[1])
          /\ (focused = "Content" /\ focused' = "List") => detail_focused_field' = None
          /\ (focused = "Content" /\ focused' = "Content"
                /\ detail_focused_field' # detail_focused_field)
             => /\ ui_pc = "event" /\ sync_state = Idle
                /\ \/ KeyEvent("Down", NoClipboard)
                   \/ KeyEvent("Up", NoClipboard)]_vars

\* C17 witness: in the detail view of the first of two items the focus has
\* been moved off the first field
C17_Witness ==
    /\ focused = "Content"
    /\ sync_state = Idle
    /\ Cardinality(DOMAIN store) = 2
    /\ list_state = Some(0)
    /\ get_available_fields(store["a"]) = <<"Username", "Password">>
    /\ detail_focused_field = Some("Password")
    /\ serial = 0
    /\ sessions = <<>>

(***************************************************************************)
(* The store operations on their own: a receive that is delivered the same *)
(* payload twice, over a range of local stores and payloads, followed by   *)
(* a share of the result.                                                  *)
(***************************************************************************)
ItemSSNNamed == SocialSecurity("078-05-1120", Some("Jane Doe"), Some("1936-11-24"), None)

StoreItems == {ItemAlice, ItemAliceNew, ItemBare, ItemSSN, ItemSSNNamed}

\* the stores over the keys of the model, the empty one included
Stores ==
    UNION {[keys -> StoreItems] : keys \in SUBSET {KeyOrder[i] : i \in DOMAIN KeyOrder}}

\* a TOML document written by another program: its SocialSecurity table
\* carries a legal_name key
ForeignPayload ==
    TomlBytes([k \in {"b"} |->
                  [variant |-> "SocialSecurity", account_number |-> "078-05-1120",
                   legal_name |-> Some("Jane Doe"), issuance_date |-> None,
                   country_of_issue |-> None]])

StorePayloads == {Garbage, ForeignPayload} \cup {serialize_store(s) : s \in Stores}

StoreKeys == {"Enter", "s"}

StoreInit ==
    /\ should_quit = FALSE
    /\ store \in Stores
    /\ focused = "List"
    /\ list_state = Some(0)
    /\ detail_focused_field = None
    /\ sync_state = Receiving
    /\ cmd_chan = <<>>
    /\ \E data \in StorePayloads : result_chan = <<DataReceived(data), DataReceived(data)>>
    /\ disk = [k \in DOMAIN store |-> SerializeItem(store[k])]
    /\ ui_pc = "poll"
    /\ p2p = None
    /\ task_pc = "recv"
    /\ task_cur = None
    /\ serial = 0
    /\ sessions = <<>>

StoreNext ==
    \/ PollResult
    \/ Draw
    \/ \E key \in StoreKeys : KeyEvent(key, NoClipboard)

StoreSpec == StoreInit /\ [][StoreNext]_vars

(***************************************************************************)
(* Properties of the store.                                                *)
(***************************************************************************)
\* C18: folding a DataReceived whose payload deserializes maps every
\* incoming key to the incoming item, keeps the item of every other local
\* key, and has no other key; when the state is Receiving and every
\* incoming key exists locally, the item count is unchanged and the state
\* becomes Completed.
C18_MergeLastWriterWins ==
    [][(Folds("DataReceived") /\ Head(result_chan).data.toml)
       => LET doc == Head(result_chan).data.doc
          IN  /\ DOMAIN store' = (DOMAIN store) \cup (DOMAIN doc)
              /\ \A k \in DOMAIN doc : store'[k] = DeserializeItem(doc[k])
              /\ \A k \in (DOMAIN store) \ (DOMAIN doc) : store'[k] = store[k]
              /\ (sync_state = Receiving /\ DOMAIN doc \subseteq DOMAIN store)
                 => /\ Cardinality(DOMAIN store') = Cardinality(DOMAIN store)
                    /\ sync_state'.tag = "Completed"]_vars

\* C18 witness: scenario D, a one-item payload has overwritten the item of
\* its key in a two-item store
C18_Witness ==
    /\ sync_state.tag = "Completed"
    /\ Len(result_chan) = 1
    /\ DOMAIN result_chan[1].data.doc = {"a"}
    /\ store = ("a" :> ItemAliceNew) @@ ("b" :> ItemSSNNamed)
    /\ "a" \in DOMAIN disk
    /\ disk["a"] = SerializeItem(ItemAlice)

\* C19: folding the second of two DataReceived results that carry the
\* same bytes leaves the store as the first fold left it.
C19_MergeIdempotent ==
    [][(Folds("DataReceived") /\ Len(result_chan) = 1) => store' = store]_vars

\* C19 witness: both copies of a payload that replaced one item and added
\* another have been folded
C19_Witness ==
    /\ result_chan = <<>>
    /\ sync_state.tag = "Completed"
    /\ store = ("a" :> ItemAliceNew) @@ ("b" :> ItemSSN)
    /\ disk = [k \in {"a"} |-> SerializeItem(ItemAlice)]
    /\ ui_pc = "poll"

\* C20: deserializing the serialization of the store (into an empty store)
\* gives the store back, every key and every field of every item.
C20_RoundTrip ==
    LET back == deserialize_store(EmptyStore, serialize_store(store))
    IN  back.ok /\ back.items = store

(***************************************************************************)
(* Properties of the sync task and of the two channels.                    *)
(***************************************************************************)
\* the node ids of the sessions whose endpoint the task still owns
LiveSessions == {n \in DOMAIN sessions : sessions[n] = "live"}

\* C21: at most one session is live at any time and no session is ever
\* dropped without having been shut down.
C21_SingleSession ==
    /\ Cardinality(LiveSessions) <= 1
    /\ \A n \in DOMAIN sessions : sessions[n] # "dropped"

\* C22: when the Receive arm ends, with DataReceived or with Error, the
\* session it built has been shut down.
C22_ReceiveSessionShutDown ==
    [][(task_pc = "receive" /\ task_pc' # "receive") => serial \notin DOMAIN sessions']_vars

\* the step in which the task takes a Cancel off the command channel
ProcessesCancel ==
    /\ task_pc = "recv"
    /\ cmd_chan # <<>>
    /\ Head(cmd_chan).cmd = "Cancel"
    /\ cmd_chan' = Tail(cmd_chan)

\* C23: processing a Cancel shuts down the held session, if there is one,
\* and leaves the task holding none; with no session it changes nothing
\* of the task (so a second Cancel in a row changes nothing); it never
\* sends a result.
C23_Cancel ==
    [][ProcessesCancel
       => /\ p2p' = None
          /\ result_chan' = result_chan
          /\ UNCHANGED <<task_pc, task_cur, serial>>
          /\ IF p2p = None THEN sessions' = sessions
             ELSE /\ p2p[1].node \in DOMAIN sessions
                  /\ sessions[p2p[1].node] = "live"
                  /\ sessions' = [n \in (DOMAIN sessions) \ {p2p[1].node} |-> sessions[n]]]_vars

\* C23 witness: the session whose ticket the App shows was held by the
\* task and the Cancel has shut it down; the task holds none
C23_Witness ==
    /\ serial = 1
    /\ sync_state = Sharing(TicketOf(1))
    /\ task_pc = "recv"
    /\ cmd_chan = <<>>
    /\ p2p = None
    /\ sessions = <<>>

\* the step in which the task ends an arm with a failure
TaskFails ==
    /\ task_pc \in {"share", "receive"}
    /\ task_pc' = "recv"
    /\ ~(\E data \in PeerPayloads : result_chan' = Append(result_chan, DataReceived(data)))

\* C24: a failing arm sends exactly one Error result and goes back to
\* the command loop (no retry); and the sync state leaves Error only by
\* the user's Enter or Esc.
C24_ErrorsSurfaceAndStay ==
    [][/\ TaskFails
          => \E msg \in {BindError, PublishError, TicketError, FetchError} :
                result_chan' = Append(result_chan, ErrorResult(msg))
       /\ (sync_state.tag = "Error" /\ sync_state'.tag # "Error")
          => /\ ui_pc = "event"
             /\ sync_state' = Idle
             /\ \/ KeyEvent("Enter", NoClipboard)
                \/ KeyEvent("Esc", NoClipboard)]_vars

\* C25: a fold that merges the payload but does not get the merged store
\* onto the disk keeps the merged store in memory and ends in a state
\* that is neither the one of a saved receive nor the one of a parse
\* failure.
C25_SaveFailureReported ==
    [][(/\ Folds("DataReceived")
        /\ Head(result_chan).data.toml
        /\ ~Persisted(store', disk'))
       => /\ store' = deserialize_store(store, Head(result_chan).data).items
          /\ sync_state' # Completed(SavedMessage)
          /\ sync_state' # Error(ParseFailedMessage(ParseErrorText))]_vars

\* C26: the task takes commands off the channel one at a time, oldest
\* first, and only at its command loop; a Share arm is back at the loop
\* with its session live, so the Cancel that follows finds it serving; a
\* Receive arm takes no command until it has sent its DataReceived or
\* Error.
C26_SequentialCommands ==
    /\ []((task_pc = "recv" /\ p2p # None)
            => (p2p[1].node \in DOMAIN sessions /\ sessions[p2p[1].node] = "live"))
    /\ [][/\ (Len(cmd_chan') < Len(cmd_chan))
             => (task_pc = "recv" /\ cmd_chan' = Tail(cmd_chan))
          /\ (task_pc = "receive" /\ task_pc' # "receive")
             => /\ task_pc' = "recv"
                /\ Len(result_chan') = Len(result_chan) + 1
                /\ result_chan'[Len(result_chan')].res \in {"DataReceived", "Error"}]_vars

\* C26 witness: the share arm is done, its session serves, and the
\* Cancel sent meanwhile is the next command
C26_Witness ==
    /\ task_pc = "recv"
    /\ p2p # None
    /\ sessions = [n \in {1} |-> "live"]
    /\ cmd_chan = <<Cancel>>
    /\ result_chan = <<TicketGenerated(TicketOf(1))>>

\* C27: a step of the task changes no field of the App; a step of the UI
\* loop changes nothing of the task; the store changes only when a
\* DataReceived is folded; the command channel is filled by the UI and
\* emptied by the task, the result channel the other way round.
C27_Ownership ==
    [][/\ (UNCHANGED <<p2p, task_pc, task_cur, serial, sessions>>) \/ (UNCHANGED ui_vars)
       /\ store' # store => Folds("DataReceived")
       /\ sync_state' # sync_state => UNCHANGED <<p2p, task_pc, task_cur, serial, sessions>>
       /\ Len(cmd_chan') > Len(cmd_chan)
          => UNCHANGED <<p2p, task_pc, task_cur, serial, sessions>>
       /\ Len(cmd_chan') < Len(cmd_chan) => UNCHANGED ui_vars
       /\ Len(result_chan') > Len(result_chan) => UNCHANGED ui_vars
       /\ Len(result_chan') < Len(result_chan)
          => UNCHANGED <<p2p, task_pc, task_cur, serial, sessions>>]_vars

\* C27 witness: the task holds a session and the App has folded its
\* ticket, each side having changed only what it owns
C27_Witness ==
    /\ p2p # None
    /\ task_pc = "recv"
    /\ sync_state = Sharing(TicketOf(1))
    /\ cmd_chan = <<>>
    /\ result_chan = <<>>
    /\ ui_pc = "event"

\* the sync state a result gives when it is folded
StateGivenBy(result) ==
    CASE result.res = "TicketGenerated" -> Sharing(result.ticket)
      [] result.res = "DataReceived" ->
            IF result.data.toml THEN Completed(SavedMessage)
            ELSE Error(ParseFailedMessage(ParseErrorText))
      [] result.res = "Error" -> Error(result.msg)

\* C28: the result channel only grows at its end, by the task, and shrinks
\* at its front, by the poll, which folds the result it takes; the frame
\* is drawn, and a key handled, only once the channel has been found
\* empty; so the state drawn is the one the last result taken gives.
C28_ResultsInOrder ==
    [][/\ result_chan' # result_chan
          => \/ /\ Len(result_chan') = Len(result_chan) + 1
                /\ SubSeq(result_chan', 1, Len(result_chan)) = result_chan
             \/ /\ ui_pc = "poll"
                /\ result_chan' = Tail(result_chan)
                /\ sync_state' = StateGivenBy(Head(result_chan))
       /\ (ui_pc = "poll" /\ ui_pc' # "poll") => result_chan = <<>>
       /\ (ui_pc = "poll" /\ sync_state' # sync_state) => result_chan' = Tail(result_chan)]_vars

\* C28 witness: the results of two sessions were drained in one poll and
\* the frame shows the state given by the second
C28_Witness ==
    /\ ui_pc = "event"
    /\ result_chan = <<>>
    /\ serial = 2
    /\ sync_state = Sharing(TicketOf(2))
    /\ p2p = None
    /\ task_pc = "store"

\* C29: when the state is Sharing with a real ticket, both channels are
\* empty and the task waits for a command, the task holds the live session
\* whose ticket it is.
C29_SharedSessionOpen ==
    (/\ sync_state.tag = "Sharing"
     /\ sync_state.text # Placeholder
     /\ cmd_chan = <<>>
     /\ result_chan = <<>>
     /\ task_pc = "recv")
    => /\ p2p # None
       /\ TicketOf(p2p[1].node) = sync_state.text
       /\ p2p[1].node \in LiveSessions

(***************************************************************************)
(* The command channel while the task is busy.  The task takes a command   *)
(* and awaits the transport inside the arm (P2PSync::new, share_data and   *)
(* receive_data await the network); meanwhile the loop of App::run goes on *)
(* handling keys, and every share, receive and cancel is one try_send on   *)
(* the channel of capacity CmdCapacity.                                    *)
(***************************************************************************)
\* the keys that start, confirm and cancel a sync, and the ticket characters
FloodKeys == {"s", "r", "Enter", "Esc"} \cup Chars

\* event::poll returns a key event and handle_key runs; the typed ticket
\* stays within the bounds, the number of sessions asked for does not
FloodKey(key) ==
    /\ ui_pc = "event"
    /\ LET a == handle_key(App, key, NoClipboard)
       IN  /\ a.sync_state.tag = "ReceiveInput" =>
                  /\ Len(a.sync_state.text) <= MaxInput
                  /\ \E t \in TicketTexts : IsPrefix(a.sync_state.text, t)
           /\ Becomes(a, IF a.should_quit THEN "done" ELSE "poll")
    /\ UNCHANGED <<result_chan, task_vars>>

FloodInit ==
    /\ should_quit = FALSE
    /\ store \in LoadableStores
    /\ focused = "List"
    /\ list_state = Some(0)
    /\ detail_focused_field = None
    /\ sync_state = Idle
    /\ cmd_chan = <<>>
    /\ result_chan = <<>>
    /\ disk = [k \in DOMAIN store |-> SerializeItem(store[k])]
    /\ ui_pc = "poll"
    /\ p2p = None
    /\ task_pc = "recv"
    /\ task_cur = None
    /\ serial = 0
    /\ sessions = <<>>

FloodNext ==
    \/ Draw
    \/ \E key \in FloodKeys : FloodKey(key)
    \/ NoEvent
    \/ TaskRecv

FloodSpec == FloodInit /\ [][FloodNext]_vars

\* the key step in which the App sends a command: a share is started, a
\* share is cancelled, or a ticket is confirmed
Dispatches ==
    /\ ui_pc = "event"
    /\ \/ sync_state = Idle /\ sync_state' = Sharing(Placeholder)
       \/ sync_state.tag = "Sharing" /\ sync_state' = Idle
       \/ sync_state.tag = "ReceiveInput" /\ sync_state' = Receiving

\* C30: whenever the App sends a command the channel has room for it and
\* the command is in the channel afterwards.
C30_NoCommandLost ==
    [][Dispatches
       => /\ Len(cmd_chan) < CmdCapacity
          /\ Len(cmd_chan') = Len(cmd_chan) + 1]_vars

(* Properties of the selection, of the focus and of the copy key across    *)
(* sync sessions.                                                          *)
\* C32: whenever the detail view is active and a field is focused, the
\* focused field is one of the available fields of the selected item.
C32_FocusAvailable ==
    (focused = "Content" /\ detail_focused_field # None)
    => /\ list_state # None
       /\ list_state[1] < Len(SortedKeys(store))
       /\ detail_focused_field[1]
             \in Range(get_available_fields(store[SortedKeys(store)[list_state[1] + 1]]))

\* the copy key is handled by the detail view, with a clipboard to copy to
CopyKeyHandled ==
    /\ ui_pc = "event"
    /\ sync_state = Idle
    /\ focused = "Content"
    /\ KeyEvent(" ", [ok |-> TRUE, text |-> <<"s", "r">>])

\* C33: whenever the copy key is handled in the detail view the selected
\* item exists and get_focused_field_value returns a value, so that
\* copy_field does not unwrap None.
C33_CopyHasValue ==
    [][CopyKeyHandled
       => /\ list_state[1] < Len(SortedKeys(store))
          /\ get_focused_field_value(store[SortedKeys(store)[list_state[1] + 1]],
                                     detail_focused_field) # None
          /\ ui_pc' = "poll"]_vars

\* C34: the selected index is set and is less than the number of items of
\* the store.
C34_SelectionExists ==
    /\ list_state # None
    /\ list_state[1] < Cardinality(DOMAIN store)

\* C35: a Share arm ends by sending one TicketGenerated or one Error, a
\* Receive arm by sending one DataReceived or one Error; no other step of
\* the task sends a result (so the results produced are as many as the
\* Share and Receive commands processed); the task stores a session only
\* after the step that sent the TicketGenerated of that session.
C35_OneResultPerCommand ==
    [][/\ (task_pc = "share" /\ task_pc' # "share")
          => \/ /\ task_pc' = "store"
                /\ result_chan' = Append(result_chan, TicketGenerated(TicketOf(serial)))
             \/ /\ task_pc' = "recv"
                /\ \E msg \in {BindError, PublishError} :
                      result_chan' = Append(result_chan, ErrorResult(msg))
       /\ (task_pc = "receive" /\ task_pc' # "receive")
          => /\ task_pc' = "recv"
             /\ \/ \E data \in PeerPayloads :
                      result_chan' = Append(result_chan, DataReceived(data))
                \/ \E msg \in {BindError, TicketError, FetchError} :
                      result_chan' = Append(result_chan, ErrorResult(msg))
       /\ Len(result_chan') > Len(result_chan)
          => (task_pc \in {"share", "receive"} /\ task_pc' # task_pc)
       /\ serial' # serial
          => (serial' = serial + 1 /\ task_pc = "recv" /\ task_pc' \in {"share", "receive"})
       /\ task_pc' = "store" => task_pc \in {"share", "store"}
       /\ (p2p' # p2p /\ p2p' # None)
          => /\ task_pc = "store"
             /\ p2p' = task_cur
             /\ p2p'[1].node = serial]_vars

\* C35 witness: a Share has failed, a Cancel and a Share have followed;
\* two commands were given an arm, two results were produced, and the
\* session of the one that sent its ticket is stored
C35_Witness ==
    /\ serial = 2
    /\ task_pc = "recv"
    /\ cmd_chan = <<>>
    /\ result_chan = <<ErrorResult(PublishError), TicketGenerated(TicketOf(2))>>
    /\ p2p # None
    /\ p2p[1].node = 2

(***************************************************************************)
(* A longer run of sync sessions over one store: the user starts up to     *)
(* MaxCommands shares and receives, with the keys of the sync overlays     *)
(* only.                                                                   *)
(***************************************************************************)
MaxCommands == 3

\* the keys that open, confirm and dismiss the overlays; in the prompt "s"
\* and "r" are ticket characters
RunKeys == {"s", "r", "Enter", "Esc"}

\* event::poll returns a key event and handle_key runs
RunKey(key) ==
    /\ ui_pc = "event"
    /\ LET a == handle_key(App, key, NoClipboard)
       IN  /\ a.sync_state.tag = "ReceiveInput" =>
                  /\ Len(a.sync_state.text) <= MaxInput
                  /\ \E t \in TicketTexts : IsPrefix(a.sync_state.text, t)
           /\ (Len(a.sync_sx) > Len(cmd_chan) /\ a.sync_sx[Len(a.sync_sx)].cmd # "Cancel")
                  => Started < MaxCommands
           /\ Becomes(a, IF a.should_quit THEN "done" ELSE "poll")
    /\ UNCHANGED <<result_chan, task_vars>>

RunInit ==
    /\ should_quit = FALSE
    /\ store = [k \in {"a"} |-> ItemAlice]
    /\ focused = "List"
    /\ list_state = Some(0)
    /\ detail_focused_field = None
    /\ sync_state = Idle
    /\ cmd_chan = <<>>
    /\ result_chan = <<>>
    /\ disk = [k \in DOMAIN store |-> SerializeItem(store[k])]
    /\ ui_pc = "poll"
    /\ p2p = None
    /\ task_pc = "recv"
    /\ task_cur = None
    /\ serial = 0
    /\ sessions = <<>>

RunNext ==
    \/ PollResult
    \/ Draw
    \/ \E key \in RunKeys : RunKey(key)
    \/ NoEvent
    \/ TaskCancel
    \/ TaskRecv
    \/ TaskShareOk
    \/ TaskShareErr(PublishError)
    \/ TaskStore
    \/ \E data \in PeerPayloads : TaskReceiveOk(data)
    \/ TaskReceiveErr(FetchError)

RunSpec == RunInit /\ [][RunNext]_vars

\* C31: when the sync state is Idle, both channels are empty and the task
\* waits for a command, the task holds no session.
C31_IdleHoldsNoSession ==
    (/\ sync_state = Idle
     /\ cmd_chan = <<>>
     /\ result_chan = <<>>
     /\ task_pc = "recv")
    => p2p = None

====
